---- MODULE Spec2Model ----
(***************************************************************************)
(* Model of the SOF mailbox transport (sof_block_write / sof_block_read)   *)
(* and of the mixer/bytes control handlers of sound/soc/sof/control.c.     *)
(***************************************************************************)
EXTENDS Integers, Sequences, FiniteSets, TLC

(***************************************************************************)
(* Bounds of the block-transfer model.                                     *)
(***************************************************************************)
RegionLen == 6
MaxBlockLen == 5

\* byte values found in the mapped region before a transfer
RegionBytes == {17, 238}
\* byte values of a source buffer
SrcBytes == {60, 165}
\* byte values of memory that lies behind the source buffer or behind the
\* mapped region (whatever a stray 32-bit access can observe there)
StrayBytes == {119, 200}

VARIABLES
    bar,        \* sdev->bar[bar]: the mapped region, address -> byte
    bar0,       \* the region's contents before the last sof_block_write
    blk_off,    \* offset argument of the last transfer
    blk_src,    \* src argument of the last sof_block_write (its size bytes)
    blk_dest,   \* dest buffer filled by the last sof_block_read
    blk_pc,     \* "fresh", "written" or "read"
    io_acc,     \* region addresses touched by MMIO in the last write
    src_acc     \* source indices read by the last write

blockVars == <<bar, bar0, blk_off, blk_src, blk_dest, blk_pc, io_acc, src_acc>>

VARIABLES
    widget_list,  \* sdev->widget_list: sequence of [comp_id, id]
    scontrol,     \* per caller: the snd_sof_control it works on (static part)
    cdata,        \* per control: scontrol->control_data, [chanv, data]
    dsp,          \* per control: the channel values the DSP component holds
    vfe_active,   \* per control: rtd->cpu_dai->active of the virtual FE
    usage_count,  \* dev->power.usage_count
    rpm_active,   \* the device's runtime status is RPM_ACTIVE
    pc,           \* per caller: position inside its handler
    op,           \* per caller: the handler being run
    arg,          \* per caller: what the caller passed in
    ret,          \* per caller: the handler's local variable ret
    changed,      \* per caller: snd_sof_switch_put's local variable changed
    rv,           \* per caller: value returned by the handler
    out,          \* per caller: what the handler stored for the caller
    log,          \* per caller: IPCs and side effects issued by the handler
    pm,           \* per caller: runtime-PM calls made by the handler
    rej,          \* per caller: the check that rejected the call, or "none"
    old,          \* per caller: the control's data when the handler was entered
    prev          \* per caller: what its previous call was and handed back

ctlVars == <<widget_list, scontrol, cdata, dsp, vfe_active, usage_count,
             rpm_active, pc, op, arg, ret, changed, rv, out, log, pm, rej, old,
             prev>>

VARIABLES
    vol_table,   \* volume_map: the table handed to the volume conversions
    vol_value,   \* value: the number handed to a conversion
    vol_index,   \* the index at which the conversion read the table
    vol_result,  \* what the conversion returned
    vol_back,    \* what ipc_to_mixer made of mixer_to_ipc's result
    vol_pc       \* "fresh", "to_ipc", "to_mixer" or "back"

codecVars == <<vol_table, vol_value, vol_index, vol_result, vol_back, vol_pc>>

vars == <<blockVars, ctlVars, codecVars>>

Pow2(k) == 2 ^ k

Min(a, b) == IF a < b THEN a ELSE b

\* bitwise AND / OR of two bytes, bit by bit
RECURSIVE And8(_, _, _)
And8(a, b, k) ==
    IF k = 0 THEN 0
    ELSE (IF a % 2 = 1 /\ b % 2 = 1 THEN 1 ELSE 0) + 2 * And8(a \div 2, b \div 2, k - 1)

RECURSIVE Or8(_, _, _)
Or8(a, b, k) ==
    IF k = 0 THEN 0
    ELSE (IF a % 2 = 1 \/ b % 2 = 1 THEN 1 ELSE 0) + 2 * Or8(a \div 2, b \div 2, k - 1)

\* A 32-bit value is held as its four bytes, index 0 the least significant
\* (the little-endian layout of the mapped region).
\* byte i of the constant (1 << (8 * n)) - 1, for n in 1..3
MaskByte(n, i) == ((Pow2(8 * n) - 1) \div Pow2(8 * i)) % 256

And32(v, w) == [i \in 0..3 |-> And8(v[i], w[i], 8)]
Or32(v, w) == [i \in 0..3 |-> Or8(v[i], w[i], 8)]
Not32(v) == [i \in 0..3 |-> 255 - v[i]]

\* ioread32(dest + a) where addresses behind the region yield stray[i]
ioread32(mem, a, stray) ==
    [i \in 0..3 |-> IF a + i < RegionLen THEN mem[a + i] ELSE stray[i]]

\* iowrite32(w, dest + a): stores behind the region do not land in it
iowrite32(mem, a, w) ==
    [x \in 0..(RegionLen - 1) |->
        IF x >= a /\ x < a + 4 THEN w[x - a] ELSE mem[x]]

\* __iowrite32_copy(dest + off, src, m): m whole 32-bit words
iowrite32_copy(mem, off, src, m) ==
    [x \in 0..(RegionLen - 1) |->
        IF x >= off /\ x < off + 4 * m THEN src[x - off] ELSE mem[x]]

\* *(u32 *)(src_byte + m * 4): bytes at index >= size come from behind src
SrcWord(src, size, m, stray) ==
    [i \in 0..3 |-> IF 4 * m + i < size THEN src[4 * m + i] ELSE stray[i]]

\* a remainder patch that stores the source word as it is
PatchWord_whole(tmp, srcw, n) == srcw

\* the value written back by the remainder patch
PatchWord(tmp, srcw, n) ==
    LET affected_mask == [i \in 0..3 |-> MaskByte(n, i)]
    IN  Or32(And32(tmp, Not32(affected_mask)), And32(srcw, affected_mask))

\* a block write that forgets the bytes behind the last whole word
BlockWritten_noRemainder(mem, off, src, size, strayDev, straySrc) ==
    iowrite32_copy(mem, off, src, size \div 4)

\* region contents after sof_block_write(sdev, bar, off, src, size)
BlockWritten(mem, off, src, size, strayDev, straySrc) ==
    LET m == size \div 4
        n == size % 4
        copied == iowrite32_copy(mem, off, src, m)
    IN  IF n # 0
        THEN iowrite32(copied, off + 4 * m,
                       PatchWord(ioread32(copied, off + 4 * m, strayDev),
                                 SrcWord(src, size, m, straySrc), n))
        ELSE copied

\* the addresses sof_block_write touches by MMIO
BlockWriteAccess(off, size) ==
    LET m == size \div 4
        n == size % 4
    IN  {off + x : x \in 0..(4 * m - 1)} \cup
        (IF n # 0 THEN {off + 4 * m + i : i \in 0..3} ELSE {})

\* the source indices sof_block_write reads
BlockWriteSrcAccess(size) ==
    LET m == size \div 4
        n == size % 4
    IN  (0..(4 * m - 1)) \cup (IF n # 0 THEN {4 * m + i : i \in 0..3} ELSE {})

Strays == {[i \in 0..3 |-> b] : b \in StrayBytes}

sof_block_write ==
    /\ blk_pc = "fresh"
    /\ \E size \in 0..MaxBlockLen, off \in 0..RegionLen :
        /\ off + size <= RegionLen
        /\ \E src \in [0..(size - 1) -> SrcBytes], sd \in Strays, ss \in Strays :
            /\ bar0' = bar
            /\ bar' = BlockWritten(bar, off, src, size, sd, ss)
            /\ blk_off' = off
            /\ blk_src' = src
            /\ io_acc' = BlockWriteAccess(off, size)
            /\ src_acc' = BlockWriteSrcAccess(size)
    /\ blk_pc' = "written"
    /\ UNCHANGED blk_dest

\* memcpy_fromio(dest, src, size): byte-wise copy out of the region
sof_block_read ==
    /\ blk_pc = "written"
    /\ blk_dest' = [i \in DOMAIN blk_src |-> bar[blk_off + i]]
    /\ blk_pc' = "read"
    /\ UNCHANGED <<bar, bar0, blk_off, blk_src, io_acc, src_acc>>

BlockInit ==
    /\ bar \in [0..(RegionLen - 1) -> RegionBytes]
    /\ bar0 = bar
    /\ blk_off = 0
    /\ blk_src = [i \in {} |-> 0]
    /\ blk_dest = [i \in {} |-> 0]
    /\ blk_pc = "fresh"
    /\ io_acc = {}
    /\ src_acc = {}

(***************************************************************************)
(* Control handlers (sound/soc/sof/control.c).                             *)
(***************************************************************************)
Procs == {1, 2}

\* errno values
EIO == 5
EFAULT == 14
EINVAL == 22
ETIMEDOUT == 110

\* sizeof(struct sof_abi_hdr), sizeof(struct snd_ctl_tlv) and
\* sizeof(ucontrol->value.bytes.data)
HdrSize == 12
TlvHdrSize == 8
BytesDataSize == 512

SOF_ABI_MAGIC == 4607827
SOF_ABI_VERSION == <<3, 1>>

\* number of payload bytes of a bytes control the model keeps track of
PayCap == 1

\* errors pm_runtime_get_sync and sof_ipc_tx_message can return
ResumeErrs == {0 - EIO}
IpcErrs == {0 - ETIMEDOUT}

SOF_ABI_VERSION_INCOMPATIBLE(sof_ver, client_ver) ==
    \/ sof_ver[1] # client_ver[1]
    \/ client_ver[2] > sof_ver[2]

\* ---- blobs: struct sof_abi_hdr followed by its payload bytes ----------
\* The u32 size field of a header is held as the signed value of its 32 bits,
\* so that 0xffffffff is -1 and every value with bit 31 set is negative.
INT_MAX == 2147483647
INT_MIN == (0 - INT_MAX) - 1

\* data->size + sizeof(*data) > be->max as size_t arithmetic computes it
\* (64 bits wide, no wrap): a size with bit 31 set is beyond every be->max
size_t_exceeds(size, max) == size < 0 \/ size > max - HdrSize

\* int data_size = cdata->data->size + sizeof(const struct sof_abi_hdr):
\* the sum cut to 32 bits and read as a signed int
int_data_size(size) ==
    IF size > INT_MAX - HdrSize
    THEN ((size - INT_MAX) - 1) + HdrSize + INT_MIN
    ELSE size + HdrSize

Blob(magic, abi, size, bytes) ==
    [magic |-> magic, abi |-> abi, size |-> size, bytes |-> bytes]

ZeroBlob == Blob(0, <<0, 0>>, 0, [j \in 1..PayCap |-> 0])

\* memcpy(dst, src, n) / copy_from_user(dst, src, n) on a blob buffer:
\* the first n bytes of src replace the first n bytes of dst
BlobCopy(dst, src, n) ==
    [magic |-> IF n >= 4 THEN src.magic ELSE dst.magic,
     abi   |-> IF n >= 8 THEN src.abi ELSE dst.abi,
     size  |-> IF n >= 12 THEN src.size ELSE dst.size,
     bytes |-> [j \in 1..PayCap |->
                   IF n >= HdrSize + j THEN src.bytes[j] ELSE dst.bytes[j]]]

\* ---- channel values: struct sof_ipc_ctrl_value_chan ---------------------
Chan(c, v) == [channel |-> c, value |-> v]

ValuesOf(chanv) == [i \in DOMAIN chanv |-> chanv[i].value]

\* ---- volume codec -------------------------------------------------------
\* volume_map is 1-indexed here: volume_map[k + 1] is the C volume_map[k]
\* value is unsigned: 'value >= size' compares it as such, so a value with
\* bit 31 set (held here as a negative number) is above every size
\* the comparison made on signed numbers
mixer_to_ipc_index_signed(value, size) ==
    IF value >= size THEN size - 1 ELSE value

mixer_to_ipc_index(value, size) ==
    IF value < 0 \/ value >= size THEN size - 1 ELSE value

mixer_to_ipc(value, volume_map, size) ==
    volume_map[mixer_to_ipc_index(value, size) + 1]

\* a >= b on u32 values (held as the signed value of their 32 bits)
u32_ge(a, b) == IF (a < 0) = (b < 0) THEN a >= b ELSE a < 0

RECURSIVE ipc_to_mixer_from(_, _, _, _)
ipc_to_mixer_from(i, value, volume_map, size) ==
    IF i < size
    THEN IF u32_ge(volume_map[i + 1], value) THEN i
         ELSE ipc_to_mixer_from(i + 1, value, volume_map, size)
    ELSE i - 1

\* a scan that stops at the first entry above the value
RECURSIVE ipc_to_mixer_from_strict(_, _, _, _)
ipc_to_mixer_from_strict(i, value, volume_map, size) ==
    IF i < size
    THEN IF volume_map[i + 1] # value /\ u32_ge(volume_map[i + 1], value) THEN i
         ELSE ipc_to_mixer_from_strict(i + 1, value, volume_map, size)
    ELSE i - 1

ipc_to_mixer_strict(value, volume_map, size) ==
    ipc_to_mixer_from_strict(0, value, volume_map, size)

\* a scan that starts at the second entry
ipc_to_mixer_from1(value, volume_map, size) ==
    ipc_to_mixer_from(1, value, volume_map, size)

ipc_to_mixer(value, volume_map, size) ==
    ipc_to_mixer_from(0, value, volume_map, size)

\* ---- the conversions on their own ----------------------------------------
MaxTableLen == 3
MaxUi == 4

\* entries of a volume table, and what lies in memory around the table
TableVals == {0, 10, 50}
StrayVals == {77}

Tables == UNION {[1..n -> TableVals] : n \in 1..MaxTableLen}

\* values a caller may pass: small ones, the largest positive int and
\* 0xffffffff
UiValues == (0..MaxUi) \cup {INT_MAX, 0 - 1}

\* values a DSP may report: table entries and values between and beyond
DeviceValues == TableVals \cup {5, 60}

\* volume_map[index], or whatever lies there when index is off the table
TableAt(volume_map, index) ==
    IF index \in 0..(Len(volume_map) - 1) THEN {volume_map[index + 1]}
    ELSE StrayVals

CodecInit ==
    /\ vol_table \in Tables
    /\ vol_value \in UiValues \cup DeviceValues
    /\ vol_index = 0
    /\ vol_result = 0
    /\ vol_back = 0
    /\ vol_pc = "fresh"

CodecQuiet ==
    /\ vol_table = <<0>>
    /\ vol_value = 0
    /\ vol_index = 0
    /\ vol_result = 0
    /\ vol_back = 0
    /\ vol_pc = "fresh"

\* mixer_to_ipc(value, volume_map, size)
to_ipc ==
    /\ vol_pc = "fresh"
    /\ LET index == mixer_to_ipc_index(vol_value, Len(vol_table))
       IN  /\ vol_index' = index
           /\ vol_result' \in TableAt(vol_table, index)
    /\ vol_pc' = "to_ipc"
    /\ UNCHANGED <<vol_table, vol_value, vol_back>>

\* ipc_to_mixer(value, volume_map, size)
to_mixer ==
    /\ vol_pc = "fresh"
    /\ vol_result' = ipc_to_mixer(vol_value, vol_table, Len(vol_table))
    /\ vol_index' = vol_result'
    /\ vol_pc' = "to_mixer"
    /\ UNCHANGED <<vol_table, vol_value, vol_back>>

\* ipc_to_mixer(mixer_to_ipc(value, volume_map, size), volume_map, size):
\* what a volume get makes of the value a volume put has sent
to_mixer_back ==
    /\ vol_pc = "to_ipc"
    /\ vol_back' = ipc_to_mixer(vol_result, vol_table, Len(vol_table))
    /\ vol_pc' = "back"
    /\ UNCHANGED <<vol_table, vol_value, vol_index, vol_result>>

\* ---- widget lookup ------------------------------------------------------
RECURSIVE widget_scan(_, _, _)
widget_scan(list, k, comp_id) ==
    IF k > Len(list) THEN "none"
    ELSE IF list[k].comp_id = comp_id THEN list[k].id
    ELSE widget_scan(list, k + 1, comp_id)

\* "none" stands for the -EINVAL of a standalone kcontrol
get_widget_type(list, sc) == widget_scan(list, 1, sc.comp_id)

\* ---- handler names ------------------------------------------------------
ValueGets == {"volume_get", "switch_get", "enum_get"}
ValuePuts == {"volume_put", "switch_put", "enum_put"}
BytesOps == {"bytes_get", "bytes_put", "bytes_ext_put", "bytes_ext_get"}
GetOps == ValueGets \cup {"bytes_get", "bytes_ext_get"}

HandlersOf(sc) ==
    CASE sc.type = "volume" -> {"volume_get", "volume_put"}
      [] sc.type = "switch" -> {"switch_get", "switch_put"}
      [] sc.type = "enum" -> {"enum_get", "enum_put"}
      [] sc.type = "bytes" -> BytesOps

\* ---- bookkeeping records ------------------------------------------------
NoArg == [vals |-> <<>>, blob |-> ZeroBlob, numid |-> 0, length |-> 0,
          fault |-> "none", size |-> 0]

NoOut == [vals |-> <<>>, blob |-> ZeroBlob, nbytes |-> 0, hdr |-> <<>>]

\* what a caller keeps of a call once it has returned: of a bytes get that
\* succeeded with the DSP's answer, the bytes handed back (blob) and the
\* bytes the DSP had sent (dev)
NoPrev == [op |-> "none", blob |-> ZeroBlob, dev |-> ZeroBlob]

NoPm == [gets |-> 0, resumed |-> FALSE, noidles |-> 0, marks |-> 0,
         autosuspends |-> 0, idle_err |-> 0]

IpcCmds == {"COMP_SET_VALUE", "COMP_GET_VALUE", "COMP_SET_DATA",
            "COMP_GET_DATA", "PCM_PARAMS", "TRIG_START", "PCM_FREE"}

\* an IPC as sent (done = FALSE while the reply is awaited, then res holds
\* the result and, for a COMP_GET_DATA, data the blob the DSP sent) or a side effect on the sound card (done from the start)
Ipc(cmd, data) == [cmd |-> cmd, data |-> data, done |-> FALSE, res |-> 0]
Effect(cmd) == [cmd |-> cmd, data |-> <<>>, done |-> TRUE, res |-> 0]

\* the IPCs among the events of a handler run
RECURSIVE IpcsOf(_)
IpcsOf(l) ==
    IF l = <<>> THEN <<>>
    ELSE IF Head(l).cmd \in IpcCmds THEN <<Head(l)>> \o IpcsOf(Tail(l))
    ELSE IpcsOf(Tail(l))

\* ---- checks made before the device is resumed --------------------------
\* Each yields [err, why, data]: the error returned (0: go on), the check
\* that failed and the control's blob buffer as the checks leave it.
Verdict(err, why, data) == [err |-> err, why |-> why, data |-> data]

snd_sof_bytes_get_check(sc, cd, a) ==
    IF sc.be_max > BytesDataSize
    THEN Verdict(0 - EINVAL, "max_gt_ucontrol", cd.data)
    ELSE Verdict(0, "none", cd.data)

snd_sof_bytes_put_check(sc, cd, a) ==
    IF sc.be_max > BytesDataSize
    THEN Verdict(0 - EINVAL, "max_gt_ucontrol", cd.data)
    ELSE IF size_t_exceeds(cd.data.size, sc.be_max)
    THEN Verdict(0 - EINVAL, "size", cd.data)
    ELSE Verdict(0, "none", cd.data)

\* an extended put whose last check reports the mismatch and goes on
snd_sof_bytes_ext_put_check_noreturn(sc, cd, a) ==
    LET copied == IF a.fault = "data" THEN cd.data
                  ELSE BlobCopy(cd.data, a.blob, a.length)
    IN  IF a.fault = "hdr"
        THEN Verdict(0 - EFAULT, "hdr_fault", cd.data)
        ELSE IF a.length > sc.be_max
        THEN Verdict(0 - EINVAL, "length", cd.data)
        ELSE IF a.numid # sc.cmd
        THEN Verdict(0 - EINVAL, "numid", cd.data)
        ELSE IF a.fault = "data"
        THEN Verdict(0 - EFAULT, "data_fault", copied)
        ELSE IF copied.magic # SOF_ABI_MAGIC
        THEN Verdict(0 - EINVAL, "magic", copied)
        ELSE IF SOF_ABI_VERSION_INCOMPATIBLE(SOF_ABI_VERSION, copied.abi)
        THEN Verdict(0 - EINVAL, "abi", copied)
        ELSE IF size_t_exceeds(copied.size, sc.be_max)
        THEN Verdict(0, "abi_size", copied)
        ELSE Verdict(0, "none", copied)

\* an extended put that copies the blob in before it checks the envelope
snd_sof_bytes_ext_put_check_copyfirst(sc, cd, a) ==
    LET copied == IF a.fault = "data" THEN cd.data
                  ELSE BlobCopy(cd.data, a.blob, a.length)
    IN  IF a.fault = "hdr"
        THEN Verdict(0 - EFAULT, "hdr_fault", cd.data)
        ELSE IF a.fault = "data"
        THEN Verdict(0 - EFAULT, "data_fault", copied)
        ELSE IF a.length > sc.be_max
        THEN Verdict(0 - EINVAL, "length", copied)
        ELSE IF a.numid # sc.cmd
        THEN Verdict(0 - EINVAL, "numid", copied)
        ELSE IF copied.magic # SOF_ABI_MAGIC
        THEN Verdict(0 - EINVAL, "magic", copied)
        ELSE IF SOF_ABI_VERSION_INCOMPATIBLE(SOF_ABI_VERSION, copied.abi)
        THEN Verdict(0 - EINVAL, "abi", copied)
        ELSE IF size_t_exceeds(copied.size, sc.be_max)
        THEN Verdict(0 - EINVAL, "abi_size", copied)
        ELSE Verdict(0, "none", copied)

\* an extended put that looks at the magic before the envelope's length
snd_sof_bytes_ext_put_check_magicfirst(sc, cd, a) ==
    LET copied == IF a.fault = "data" THEN cd.data
                  ELSE BlobCopy(cd.data, a.blob, a.length)
    IN  IF a.fault = "hdr"
        THEN Verdict(0 - EFAULT, "hdr_fault", cd.data)
        ELSE IF a.fault = "none" /\ copied.magic # SOF_ABI_MAGIC
        THEN Verdict(0 - EINVAL, "magic", cd.data)
        ELSE IF a.length > sc.be_max
        THEN Verdict(0 - EINVAL, "length", cd.data)
        ELSE IF a.numid # sc.cmd
        THEN Verdict(0 - EINVAL, "numid", cd.data)
        ELSE IF a.fault = "data"
        THEN Verdict(0 - EFAULT, "data_fault", copied)
        ELSE IF SOF_ABI_VERSION_INCOMPATIBLE(SOF_ABI_VERSION, copied.abi)
        THEN Verdict(0 - EINVAL, "abi", copied)
        ELSE IF size_t_exceeds(copied.size, sc.be_max)
        THEN Verdict(0 - EINVAL, "abi_size", copied)
        ELSE Verdict(0, "none", copied)

snd_sof_bytes_ext_put_check(sc, cd, a) ==
    LET copied == IF a.fault = "data" THEN cd.data
                  ELSE BlobCopy(cd.data, a.blob, a.length)
    IN  IF a.fault = "hdr"
        THEN Verdict(0 - EFAULT, "hdr_fault", cd.data)
        ELSE IF a.length > sc.be_max
        THEN Verdict(0 - EINVAL, "length", cd.data)
        ELSE IF a.numid # sc.cmd
        THEN Verdict(0 - EINVAL, "numid", cd.data)
        ELSE IF a.fault = "data"
        THEN Verdict(0 - EFAULT, "data_fault", copied)
        ELSE IF copied.magic # SOF_ABI_MAGIC
        THEN Verdict(0 - EINVAL, "magic", copied)
        ELSE IF SOF_ABI_VERSION_INCOMPATIBLE(SOF_ABI_VERSION, copied.abi)
        THEN Verdict(0 - EINVAL, "abi", copied)
        ELSE IF size_t_exceeds(copied.size, sc.be_max)
        THEN Verdict(0 - EINVAL, "abi_size", copied)
        ELSE Verdict(0, "none", copied)

PreResume(h, sc, cd, a) ==
    CASE h = "bytes_get" -> snd_sof_bytes_get_check(sc, cd, a)
      [] h = "bytes_put" -> snd_sof_bytes_put_check(sc, cd, a)
      [] h = "bytes_ext_put" -> snd_sof_bytes_ext_put_check(sc, cd, a)
      [] OTHER -> Verdict(0, "none", cd.data)

\* bound on |cpu_dai->active| of the virtual front end
MaxActive == 2

\* A caller enters handler h with arguments a; the handler runs up to its
\* pm_runtime_get_sync() call or to an early return.
Call(p, h, a) ==
    /\ pc[p] = "idle"
    /\ h \in HandlersOf(scontrol[p])
    /\ h = "switch_put" =>
          (vfe_active[p] > 0 - MaxActive /\ vfe_active[p] < MaxActive)
    /\ LET v == PreResume(h, scontrol[p], cdata[p], a)
       IN  /\ cdata' = [cdata EXCEPT ![p].data = v.data]
           /\ rej' = [rej EXCEPT ![p] = v.why]
           /\ ret' = [ret EXCEPT ![p] = v.err]
           /\ rv' = [rv EXCEPT ![p] = v.err]
           /\ pc' = [pc EXCEPT ![p] = IF v.err < 0 THEN "done" ELSE "resume"]
    /\ op' = [op EXCEPT ![p] = h]
    /\ arg' = [arg EXCEPT ![p] = a]
    /\ changed' = [changed EXCEPT ![p] = 0]
    /\ out' = [out EXCEPT ![p] = NoOut]
    /\ log' = [log EXCEPT ![p] = <<>>]
    /\ pm' = [pm EXCEPT ![p] = NoPm]
    /\ old' = [old EXCEPT ![p] = cdata[p]]
    /\ UNCHANGED <<widget_list, scontrol, dsp, vfe_active, usage_count, rpm_active,
                   prev>>
    /\ UNCHANGED <<blockVars, codecVars>>

\* the caller writes back, untouched, what its bytes get has just returned
PutBack(p) ==
    /\ prev[p].op = "bytes_get"
    /\ Call(p, "bytes_put", [NoArg EXCEPT !.blob = prev[p].blob])

\* ret = pm_runtime_get_sync(sdev->dev): the usage count is raised whatever
\* the outcome; 1 if the device was already active, 0 after a resume, or
\* the error of a failed resume
pm_runtime_get_sync(p) ==
    /\ pc[p] = "resume"
    /\ usage_count' = usage_count + 1
    /\ \/ /\ rpm_active
          /\ ret' = [ret EXCEPT ![p] = 1]
          /\ pm' = [pm EXCEPT ![p].gets = @ + 1, ![p].resumed = TRUE]
          /\ pc' = [pc EXCEPT ![p] = "body"]
          /\ UNCHANGED rpm_active
       \/ /\ ~rpm_active
          /\ rpm_active' = TRUE
          /\ ret' = [ret EXCEPT ![p] = 0]
          /\ pm' = [pm EXCEPT ![p].gets = @ + 1, ![p].resumed = TRUE]
          /\ pc' = [pc EXCEPT ![p] = "body"]
       \/ /\ ~rpm_active
          /\ \E e \in ResumeErrs : ret' = [ret EXCEPT ![p] = e]
          /\ pm' = [pm EXCEPT ![p].gets = @ + 1]
          /\ pc' = [pc EXCEPT ![p] = "noidle"]
          /\ UNCHANGED rpm_active
    /\ UNCHANGED <<widget_list, scontrol, cdata, dsp, vfe_active, op, arg,
                   changed, rv, out, log, rej, old, prev>>
    /\ UNCHANGED <<blockVars, codecVars>>

\* a failure path that returns without dropping the usage count
pm_runtime_put_noidle_missing(p) ==
    /\ pc[p] = "noidle"
    /\ pm' = [pm EXCEPT ![p].noidles = @ + 1]
    /\ rv' = [rv EXCEPT ![p] = ret[p]]
    /\ pc' = [pc EXCEPT ![p] = "done"]
    /\ UNCHANGED <<widget_list, scontrol, cdata, dsp, vfe_active, usage_count,
                   rpm_active, op, arg, ret, changed, out, log, rej, old, prev>>
    /\ UNCHANGED <<blockVars, codecVars>>

\* a failure path that drops the usage count and then carries on
pm_runtime_put_noidle_fallthrough(p) ==
    /\ pc[p] = "noidle"
    /\ usage_count' = usage_count - 1
    /\ pm' = [pm EXCEPT ![p].noidles = @ + 1]
    /\ pc' = [pc EXCEPT ![p] = "body"]
    /\ UNCHANGED <<widget_list, scontrol, cdata, dsp, vfe_active, rpm_active,
                   op, arg, ret, changed, rv, out, log, rej, old, prev>>
    /\ UNCHANGED <<blockVars, codecVars>>

\* if (ret < 0) { pm_runtime_put_noidle(sdev->dev); return ret; }
pm_runtime_put_noidle(p) ==
    /\ pc[p] = "noidle"
    /\ usage_count' = usage_count - 1
    /\ pm' = [pm EXCEPT ![p].noidles = @ + 1]
    /\ rv' = [rv EXCEPT ![p] = ret[p]]
    /\ pc' = [pc EXCEPT ![p] = "done"]
    /\ UNCHANGED <<widget_list, scontrol, cdata, dsp, vfe_active, rpm_active,
                   op, arg, ret, changed, out, log, rej, old, prev>>
    /\ UNCHANGED <<blockVars, codecVars>>

\* what each handler returns once past its resume
ReturnValue(h, r) == IF h \in BytesOps THEN r ELSE 0

\* a handler that hands a failure of the idle request to its caller
IdleReturn_err(h, r, err) == IF err < 0 THEN err ELSE ReturnValue(h, r)

\* if (err < 0) dev_err_ratelimited(...); return ret (or 0)
IdleReturn(h, r, err) == ReturnValue(h, r)

\* pm_runtime_mark_last_busy(); err = pm_runtime_put_autosuspend(); return
pm_runtime_put_autosuspend(p) ==
    /\ pc[p] = "exit"
    /\ usage_count' = usage_count - 1
    /\ \E err \in {0, 0 - EIO} :
        /\ pm' = [pm EXCEPT ![p].marks = @ + 1, ![p].autosuspends = @ + 1,
                            ![p].idle_err = err]
        /\ rv' = [rv EXCEPT ![p] = IdleReturn(op[p], ret[p], err)]
    /\ pc' = [pc EXCEPT ![p] = "done"]
    /\ UNCHANGED <<widget_list, scontrol, cdata, dsp, vfe_active, rpm_active,
                   op, arg, ret, changed, out, log, rej, old, prev>>
    /\ UNCHANGED <<blockVars, codecVars>>

\* the autosuspend timer fires with nobody holding the device
rpm_suspend ==
    /\ usage_count = 0
    /\ rpm_active
    /\ rpm_active' = FALSE
    /\ UNCHANGED <<widget_list, scontrol, cdata, dsp, vfe_active, usage_count,
                   pc, op, arg, ret, changed, rv, out, log, pm, rej, old, prev>>
    /\ UNCHANGED <<blockVars, codecVars>>

HandedBack(h, r, o, l) ==
    IF h = "bytes_get" /\ r >= 0 /\ l # <<>> /\ l[1].res = 0
    THEN [op |-> h, blob |-> o.blob, dev |-> l[1].data]
    ELSE NoPrev

\* the handler has returned; the caller may call again
Return(p) ==
    /\ pc[p] = "done"
    /\ pc' = [pc EXCEPT ![p] = "idle"]
    /\ op' = [op EXCEPT ![p] = "none"]
    /\ arg' = [arg EXCEPT ![p] = NoArg]
    /\ ret' = [ret EXCEPT ![p] = 0]
    /\ rv' = [rv EXCEPT ![p] = 0]
    /\ changed' = [changed EXCEPT ![p] = 0]
    /\ out' = [out EXCEPT ![p] = NoOut]
    /\ log' = [log EXCEPT ![p] = <<>>]
    /\ pm' = [pm EXCEPT ![p] = NoPm]
    /\ rej' = [rej EXCEPT ![p] = "none"]
    /\ old' = [old EXCEPT ![p] = cdata[p]]
    /\ prev' = [prev EXCEPT ![p] = HandedBack(op[p], rv[p], out[p], log[p])]
    /\ UNCHANGED <<widget_list, scontrol, cdata, dsp, vfe_active, usage_count,
                   rpm_active>>
    /\ UNCHANGED <<blockVars, codecVars>>

\* ---- handler bodies, run with the device resumed -----------------------
\* snd_sof_ipc_set_get_comp_data(...) is entered: the IPC is on its way
SendIpc(p, cmd, data) == log' = [log EXCEPT ![p] = Append(@, Ipc(cmd, data))]

GetCmd(h) == IF h \in ValueGets THEN "COMP_GET_VALUE" ELSE "COMP_GET_DATA"

\* the get handlers ask the DSP for the control's data; bytes_ext_get
\* first stamps the ABI header of the control's buffer
get_request(p) ==
    /\ pc[p] = "body"
    /\ op[p] \in GetOps
    /\ cdata' = [cdata EXCEPT ![p].data =
                    IF op[p] = "bytes_ext_get"
                    THEN [@ EXCEPT !.magic = SOF_ABI_MAGIC,
                                   !.abi = SOF_ABI_VERSION]
                    ELSE @]
    /\ SendIpc(p, GetCmd(op[p]), <<>>)
    /\ pc' = [pc EXCEPT ![p] = "ipc"]
    /\ UNCHANGED <<widget_list, scontrol, dsp, vfe_active, usage_count,
                   rpm_active, op, arg, ret, changed, rv, out, pm, rej, old, prev>>
    /\ UNCHANGED <<blockVars, codecVars>>

\* a volume update that takes every channel's value from channel 0
volume_put_update_ch0(sc, a) ==
    [i \in 1..sc.num_channels |->
        Chan(i - 1, mixer_to_ipc(a.vals[1], sc.volume_table, sc.sm_max + 1))]

\* for (i = 0; i < channels; i++) chanv[i] = {mixer_to_ipc(value[i]), i}
volume_put_update(sc, a) ==
    [i \in 1..sc.num_channels |->
        Chan(i - 1, mixer_to_ipc(a.vals[i], sc.volume_table, sc.sm_max + 1))]

snd_sof_volume_put(p) ==
    /\ pc[p] = "body"
    /\ op[p] = "volume_put"
    /\ LET chanv == volume_put_update(scontrol[p], arg[p])
       IN  /\ cdata' = [cdata EXCEPT ![p].chanv = chanv]
           /\ SendIpc(p, "COMP_SET_VALUE", chanv)
    /\ pc' = [pc EXCEPT ![p] = "ipc"]
    /\ UNCHANGED <<widget_list, scontrol, dsp, vfe_active, usage_count,
                   rpm_active, op, arg, ret, changed, rv, out, pm, rej, old, prev>>
    /\ UNCHANGED <<blockVars, codecVars>>

enum_put_update(sc, a) ==
    [i \in 1..sc.num_channels |-> Chan(i - 1, a.vals[i])]

snd_sof_enum_put(p) ==
    /\ pc[p] = "body"
    /\ op[p] = "enum_put"
    /\ LET chanv == enum_put_update(scontrol[p], arg[p])
       IN  /\ cdata' = [cdata EXCEPT ![p].chanv = chanv]
           /\ SendIpc(p, "COMP_SET_VALUE", chanv)
    /\ pc' = [pc EXCEPT ![p] = "ipc"]
    /\ UNCHANGED <<widget_list, scontrol, dsp, vfe_active, usage_count,
                   rpm_active, op, arg, ret, changed, rv, out, pm, rej, old, prev>>
    /\ UNCHANGED <<blockVars, codecVars>>

\* the three loops of snd_sof_switch_put; cur is the channel vector as the
\* loop has left it so far, i the next channel (0-based)
RECURSIVE switch_loop(_, _, _, _, _, _)
switch_loop(wt, n, vals, cur, chg, i) ==
    IF i >= n THEN [chanv |-> cur, changed |-> chg]
    ELSE LET new_state == IF wt = "pga" THEN vals[i + 1] ELSE vals[1]
             old_state == IF wt = "pga" THEN cur[i + 1].value ELSE cur[1].value
         IN  switch_loop(wt, n, vals,
                         [cur EXCEPT ![i + 1] = Chan(i, new_state)],
                         IF new_state # old_state THEN 1 ELSE chg, i + 1)

\* a switch update that reports a change whatever the values are
switch_put_update_always(wt, sc, cd, a) ==
    [chanv |-> switch_loop(wt, sc.num_channels, a.vals, cd.chanv, 0, 0).chanv,
     changed |-> 1]

\* a switch update that treats every widget as a routing widget
switch_put_update_ch0(wt, sc, cd, a) ==
    switch_loop("mixer", sc.num_channels, a.vals, cd.chanv, 0, 0)

\* a switch update that takes every widget for a processing widget
switch_put_update_perchannel(wt, sc, cd, a) ==
    switch_loop("pga", sc.num_channels, a.vals, cd.chanv, 0, 0)

switch_put_update(wt, sc, cd, a) ==
    switch_loop(wt, sc.num_channels, a.vals, cd.chanv, 0, 0)

snd_sof_switch_put(p) ==
    /\ pc[p] = "body"
    /\ op[p] = "switch_put"
    /\ LET u == switch_put_update(get_widget_type(widget_list, scontrol[p]),
                                  scontrol[p], cdata[p], arg[p])
       IN  /\ cdata' = [cdata EXCEPT ![p].chanv = u.chanv]
           /\ changed' = [changed EXCEPT ![p] = u.changed]
           /\ IF u.changed # 0
              THEN /\ SendIpc(p, "COMP_SET_VALUE", u.chanv)
                   /\ pc' = [pc EXCEPT ![p] = "ipc"]
              ELSE /\ pc' = [pc EXCEPT ![p] = "exit"]
                   /\ UNCHANGED log
    /\ UNCHANGED <<widget_list, scontrol, dsp, vfe_active, usage_count,
                   rpm_active, op, arg, ret, rv, out, pm, rej, old, prev>>
    /\ UNCHANGED <<blockVars, codecVars>>

\* memcpy(data, ucontrol->value.bytes.data, size) with size taken from the
\* header the buffer held when the handler was entered
snd_sof_bytes_put(p) ==
    /\ pc[p] = "body"
    /\ op[p] = "bytes_put"
    /\ LET size == cdata[p].data.size + HdrSize
           data == BlobCopy(cdata[p].data, arg[p].blob, size)
       IN  /\ cdata' = [cdata EXCEPT ![p].data = data]
           /\ SendIpc(p, "COMP_SET_DATA", data)
    /\ pc' = [pc EXCEPT ![p] = "ipc"]
    /\ UNCHANGED <<widget_list, scontrol, dsp, vfe_active, usage_count,
                   rpm_active, op, arg, ret, changed, rv, out, pm, rej, old, prev>>
    /\ UNCHANGED <<blockVars, codecVars>>

snd_sof_bytes_ext_put(p) ==
    /\ pc[p] = "body"
    /\ op[p] = "bytes_ext_put"
    /\ SendIpc(p, "COMP_SET_DATA", cdata[p].data)
    /\ pc' = [pc EXCEPT ![p] = "ipc"]
    /\ UNCHANGED <<widget_list, scontrol, cdata, dsp, vfe_active, usage_count,
                   rpm_active, op, arg, ret, changed, rv, out, pm, rej, old, prev>>
    /\ UNCHANGED <<blockVars, codecVars>>

\* ---- the DSP's side of an IPC -------------------------------------------
TriggerCmds == {"PCM_PARAMS", "TRIG_START", "PCM_FREE"}

\* the control's data once the reply r to cmd has been taken in
ReplyData(cmd, r, cd, d) ==
    IF r < 0 THEN cd
    ELSE CASE cmd = "COMP_GET_VALUE" ->
                [cd EXCEPT !.chanv = [i \in DOMAIN cd.chanv |-> Chan(i - 1, d.chanv[i])]]
           [] cmd = "COMP_GET_DATA" -> [cd EXCEPT !.data = d.data]
           [] OTHER -> cd

\* the channel values the DSP component holds once it has served cmd
DspAfter(cmd, r, cd, d) ==
    IF r >= 0 /\ cmd = "COMP_SET_VALUE" THEN ValuesOf(cd.chanv) ELSE d.chanv

\* the size 0xffffffff
HugeSize == 0 - 1

\* The binary data of a component is the DSP's own: what it reports on a
\* COMP_GET_DATA is any of these, the second one larger than the small
\* controls of the model can take, the third larger than any control.
DspBlobs ==
    {Blob(SOF_ABI_MAGIC, SOF_ABI_VERSION, n, [j \in 1..PayCap |-> 1]) :
        n \in {PayCap, PayCap + 1, HugeSize}}

\* a handler that returns at once when a set or trigger IPC fails
AfterIpc_earlyreturn(h, wt, cmd, r) ==
    CASE cmd \in {"COMP_GET_VALUE", "COMP_GET_DATA"} -> "after"
      [] r < 0 -> "done"
      [] cmd = "COMP_SET_VALUE" /\ h = "switch_put" /\ wt = "siggen" -> "trig"
      [] cmd = "PCM_PARAMS" -> "trig_start"
      [] OTHER -> "exit"

\* a trigger that starts the stream whatever siggen_pcm_params returned
AfterIpc_ignoreparams(h, wt, cmd, r) ==
    CASE cmd \in {"COMP_GET_VALUE", "COMP_GET_DATA"} -> "after"
      [] cmd = "COMP_SET_VALUE" /\ h = "switch_put" /\ wt = "siggen" -> "trig"
      [] cmd = "PCM_PARAMS" -> "trig_start"
      [] OTHER -> "exit"

\* where a handler goes on once the IPC cmd has returned r
AfterIpc(h, wt, cmd, r) ==
    CASE cmd \in {"COMP_GET_VALUE", "COMP_GET_DATA"} -> "after"
      [] cmd = "COMP_SET_VALUE" /\ h = "switch_put" /\ wt = "siggen" -> "trig"
      [] cmd = "PCM_PARAMS" /\ r >= 0 -> "trig_start"
      [] OTHER -> "exit"

\* the handlers that keep the IPC's result in ret
KeepsIpcResult(h, cmd) == h = "bytes_ext_get" \/ cmd \in TriggerCmds

\* sof_ipc_tx_message() returns: 0 or an error
ipc_reply(p) ==
    /\ pc[p] = "ipc"
    /\ \E r \in {0} \cup IpcErrs :
        \E b \in IF log[p][Len(log[p])].cmd = "COMP_GET_DATA" /\ r >= 0
                 THEN DspBlobs ELSE {ZeroBlob} :
        LET k == Len(log[p])
            cmd == log[p][k].cmd
            wt == get_widget_type(widget_list, scontrol[p])
            d == [chanv |-> dsp[p], data |-> b]
        IN  /\ log' = [log EXCEPT ![p][k].done = TRUE, ![p][k].res = r,
                                  ![p][k].data = IF cmd = "COMP_GET_DATA" /\ r >= 0
                                                 THEN b ELSE @]
            /\ cdata' = [cdata EXCEPT ![p] = ReplyData(cmd, r, cdata[p], d)]
            /\ dsp' = [dsp EXCEPT ![p] = DspAfter(cmd, r, cdata[p], d)]
            /\ ret' = [ret EXCEPT ![p] = IF KeepsIpcResult(op[p], cmd) THEN r ELSE @]
            /\ changed' = [changed EXCEPT ![p] =
                              IF cmd \in TriggerCmds /\ r < 0 THEN r ELSE @]
            /\ pc' = [pc EXCEPT ![p] = AfterIpc(op[p], wt, cmd, r)]
    /\ UNCHANGED <<widget_list, scontrol, vfe_active, usage_count, rpm_active,
                   op, arg, rv, out, pm, rej, old, prev>>
    /\ UNCHANGED <<blockVars, codecVars>>

\* ---- siggen pipeline ----------------------------------------------------
\* siggen_pipeline_trigger(): mark the virtual FE, then send the first IPC
siggen_pipeline_trigger(p) ==
    /\ pc[p] = "trig"
    /\ LET new_state == arg[p].vals[1]
       IN  IF new_state = 0
           THEN /\ vfe_active' = [vfe_active EXCEPT ![p] = @ - 1]
                /\ log' = [log EXCEPT ![p] =
                              @ \o <<Effect("VFE_INACTIVE"), Ipc("PCM_FREE", <<>>)>>]
           ELSE /\ vfe_active' = [vfe_active EXCEPT ![p] = @ + 1]
                /\ log' = [log EXCEPT ![p] =
                              @ \o <<Effect("VFE_ACTIVE"), Effect("DPCM_UPDATE"),
                                     Ipc("PCM_PARAMS", <<>>)>>]
    /\ pc' = [pc EXCEPT ![p] = "ipc"]
    /\ UNCHANGED <<widget_list, scontrol, cdata, dsp, usage_count, rpm_active,
                   op, arg, ret, changed, rv, out, pm, rej, old, prev>>
    /\ UNCHANGED <<blockVars, codecVars>>

\* siggen_trigger(scontrol, sdev, SOF_IPC_STREAM_TRIG_START)
siggen_trigger_start(p) ==
    /\ pc[p] = "trig_start"
    /\ SendIpc(p, "TRIG_START", <<>>)
    /\ pc' = [pc EXCEPT ![p] = "ipc"]
    /\ UNCHANGED <<widget_list, scontrol, cdata, dsp, vfe_active, usage_count,
                   rpm_active, op, arg, ret, changed, rv, out, pm, rej, old, prev>>
    /\ UNCHANGED <<blockVars, codecVars>>

\* ---- read back after a get ----------------------------------------------
\* each yields [ret, out]
volume_get_readback(sc, cd, a, r) ==
    [ret |-> r,
     out |-> [NoOut EXCEPT !.vals =
                 [i \in 1..sc.num_channels |->
                     ipc_to_mixer(cd.chanv[i].value, sc.volume_table, sc.sm_max + 1)]]]

switch_get_readback(sc, cd, a, r) ==
    [ret |-> r,
     out |-> [NoOut EXCEPT !.vals = [i \in 1..sc.num_channels |-> cd.chanv[i].value]]]

\* a bytes get that copies the declared size only, the header not counted
bytes_get_readback_nohdr(sc, cd, a, r) ==
    IF size_t_exceeds(cd.data.size, sc.be_max)
    THEN [ret |-> 0 - EINVAL, out |-> NoOut]
    ELSE [ret |-> r,
          out |-> [NoOut EXCEPT !.blob = BlobCopy(ZeroBlob, cd.data, cd.data.size),
                                !.nbytes = cd.data.size]]

bytes_get_readback(sc, cd, a, r) ==
    LET size == cd.data.size + HdrSize
    IN  IF size_t_exceeds(cd.data.size, sc.be_max)
        THEN [ret |-> 0 - EINVAL, out |-> NoOut]
        ELSE [ret |-> r,
              out |-> [NoOut EXCEPT !.blob = BlobCopy(ZeroBlob, cd.data, size),
                                    !.nbytes = size]]

bytes_ext_get_readback(sc, cd, a, r) ==
    LET data_size == int_data_size(cd.data.size)
    IN  IF data_size > sc.be_max
        THEN [ret |-> 0 - EINVAL, out |-> NoOut]
        ELSE IF a.fault = "hdr"
        THEN [ret |-> 0 - EFAULT, out |-> NoOut]
        ELSE IF a.fault = "data"
        THEN [ret |-> 0 - EFAULT,
              out |-> [NoOut EXCEPT !.hdr = <<sc.cmd, data_size>>,
                                    !.nbytes = TlvHdrSize]]
        ELSE [ret |-> r,
              out |-> [NoOut EXCEPT !.hdr = <<sc.cmd, data_size>>,
                                    !.blob = BlobCopy(ZeroBlob, cd.data, data_size),
                                    !.nbytes = TlvHdrSize + data_size]]

Readback(h, sc, cd, a, r) ==
    CASE h = "volume_get" -> volume_get_readback(sc, cd, a, r)
      [] h \in {"switch_get", "enum_get"} -> switch_get_readback(sc, cd, a, r)
      [] h = "bytes_get" -> bytes_get_readback(sc, cd, a, r)
      [] h = "bytes_ext_get" -> bytes_ext_get_readback(sc, cd, a, r)

get_readback(p) ==
    /\ pc[p] = "after"
    /\ LET b == Readback(op[p], scontrol[p], cdata[p], arg[p], ret[p])
       IN  /\ ret' = [ret EXCEPT ![p] = b.ret]
           /\ out' = [out EXCEPT ![p] = b.out]
    /\ pc' = [pc EXCEPT ![p] = "exit"]
    /\ UNCHANGED <<widget_list, scontrol, cdata, dsp, vfe_active, usage_count,
                   rpm_active, op, arg, changed, rv, log, pm, rej, old, prev>>
    /\ UNCHANGED <<blockVars, codecVars>>

\* ---- controls handed over by the topology -------------------------------
SOF_CTRL_CMD_VOLUME == 0
SOF_CTRL_CMD_ENUM == 1
SOF_CTRL_CMD_SWITCH == 2
SOF_CTRL_CMD_BINARY == 3

Control(type, comp_id, channels, sm_max, be_max, cmd, table) ==
    [type |-> type, comp_id |-> comp_id, num_channels |-> channels,
     sm_max |-> sm_max, be_max |-> be_max, cmd |-> cmd, volume_table |-> table]

\* widgets 1 (pga), 2 (siggen) and 3 (mixer); component 4 has no widget
Widgets ==
    <<[comp_id |-> 1, id |-> "pga"], [comp_id |-> 2, id |-> "siggen"],
      [comp_id |-> 3, id |-> "mixer"]>>

\* the controls of the sequential specification: two channels each
Controls(n) ==
    {Control("volume", 1, n, 2, 0, SOF_CTRL_CMD_VOLUME, <<0, 10, 10>>)} \cup
    {Control("switch", c, n, 1, 0, SOF_CTRL_CMD_SWITCH, <<>>) : c \in 1..4} \cup
    {Control("enum", 3, n, 1, 0, SOF_CTRL_CMD_ENUM, <<>>)} \cup
    {Control("bytes", 1, 0, 0, m, SOF_CTRL_CMD_BINARY, <<>>) :
        m \in {HdrSize + PayCap, BytesDataSize + HdrSize}}

\* ---- what callers and the DSP may supply ---------------------------------
Abis == {SOF_ABI_VERSION, <<3, 2>>}

\* payload bytes as a caller writes them
UserBytes == [j \in 1..PayCap |-> 2]

UserBlobs ==
    {Blob(m, a, n, UserBytes) : m \in {SOF_ABI_MAGIC, 0}, a \in Abis,
                                n \in 0..(PayCap + 1)}

GoodBlob == Blob(SOF_ABI_MAGIC, SOF_ABI_VERSION, PayCap, UserBytes)

\* lengths an envelope may declare: nothing, a bare header, header plus
\* payload up to one byte more than the model tracks
TlvLengths == {0, HdrSize, HdrSize + PayCap, HdrSize + PayCap + 1}

\* A fault of the first copy_from_user() ends the call whatever else was
\* passed, and so does a wrong numid once the length is known; a fault of
\* the second copy needs a length and a numid that get that far.
ExtPutArgs(sc) ==
    {a \in [vals : {<<>>}, blob : UserBlobs, numid : {sc.cmd, sc.cmd + 1},
            length : TlvLengths, fault : {"none", "hdr", "data"}, size : {0}] :
        /\ a.fault = "hdr" => (a.blob = GoodBlob /\ a.numid = sc.cmd /\ a.length = 0)
        /\ a.fault = "data" => (a.blob = GoodBlob /\ a.numid = sc.cmd /\ a.length = HdrSize)
        /\ a.numid # sc.cmd => a.blob = GoodBlob}

ArgsOf(h, sc) ==
    CASE h \in ValuePuts ->
            {[NoArg EXCEPT !.vals = v] :
                v \in [1..sc.num_channels -> 0..(sc.sm_max + 1)]}
      [] h = "bytes_put" -> {[NoArg EXCEPT !.blob = b] : b \in UserBlobs}
      [] h = "bytes_ext_put" -> ExtPutArgs(sc)
      [] h = "bytes_ext_get" ->
            {[NoArg EXCEPT !.size = n, !.fault = f] :
                n \in {TlvHdrSize - 4, TlvHdrSize + HdrSize},
                f \in {"none", "hdr", "data"}}
      [] OTHER -> {NoArg}

\* the reduced arguments of the concurrent specification
SmallArgsOf(h, sc) ==
    CASE h \in ValuePuts ->
            {[NoArg EXCEPT !.vals = v] : v \in [1..sc.num_channels -> 0..1]}
      [] h \in {"bytes_put", "bytes_ext_put"} ->
            {[NoArg EXCEPT !.blob = Blob(SOF_ABI_MAGIC, SOF_ABI_VERSION, n, UserBytes),
                           !.numid = sc.cmd, !.length = HdrSize + n] :
                n \in {1, PayCap + 1}}
      [] OTHER -> {NoArg}

\* a control's data as the topology leaves it, and what the DSP may hold
InitialData(sc) ==
    [chanv |-> [i \in 1..sc.num_channels |-> Chan(i - 1, 0)],
     data |-> IF sc.type = "bytes"
              THEN Blob(SOF_ABI_MAGIC, SOF_ABI_VERSION, 0, [j \in 1..PayCap |-> 0])
              ELSE ZeroBlob]

DspStates(sc) == [1..sc.num_channels -> {0, 1}]

\* the state of the callers and of the device before any call
CtlStart ==
    /\ widget_list = Widgets
    /\ cdata = [p \in Procs |-> InitialData(scontrol[p])]
    /\ dsp \in [Procs -> UNION {DspStates(scontrol[p]) : p \in Procs}]
    /\ \A p \in Procs : dsp[p] \in DspStates(scontrol[p])
    /\ vfe_active = [p \in Procs |-> 0]
    /\ usage_count = 0
    /\ rpm_active = FALSE
    /\ pc = [p \in Procs |-> "idle"]
    /\ op = [p \in Procs |-> "none"]
    /\ arg = [p \in Procs |-> NoArg]
    /\ ret = [p \in Procs |-> 0]
    /\ changed = [p \in Procs |-> 0]
    /\ rv = [p \in Procs |-> 0]
    /\ out = [p \in Procs |-> NoOut]
    /\ log = [p \in Procs |-> <<>>]
    /\ pm = [p \in Procs |-> NoPm]
    /\ rej = [p \in Procs |-> "none"]
    /\ old = cdata
    /\ prev = [p \in Procs |-> NoPrev]

\* no control traffic at all (the block-transfer specification)
CtlQuiet ==
    /\ scontrol = [p \in Procs |-> Control("enum", 3, 1, 1, 0, SOF_CTRL_CMD_ENUM, <<>>)]
    /\ CtlStart
    /\ \A p \in Procs : dsp[p] = <<0>>

\* the steps of a handler past its entry
Step(p) ==
    \/ pm_runtime_get_sync(p)
    \/ pm_runtime_put_noidle(p)
    \/ get_request(p)
    \/ snd_sof_volume_put(p)
    \/ snd_sof_enum_put(p)
    \/ snd_sof_switch_put(p)
    \/ snd_sof_bytes_put(p)
    \/ snd_sof_bytes_ext_put(p)
    \/ ipc_reply(p)
    \/ siggen_pipeline_trigger(p)
    \/ siggen_trigger_start(p)
    \/ get_readback(p)
    \/ pm_runtime_put_autosuspend(p)
    \/ Return(p)

\* ---- one caller at a time (callers serialised) ---------------------------
NumChannels == 2

Init ==
    /\ BlockInit /\ bar = [x \in 0..(RegionLen - 1) |-> 17]
    /\ CodecQuiet
    /\ scontrol \in [Procs -> Controls(NumChannels)]
    /\ scontrol[2] = Control("enum", 3, NumChannels, 1, 0, SOF_CTRL_CMD_ENUM, <<>>)
    /\ CtlStart
    /\ dsp[2] = [i \in 1..NumChannels |-> 0]

Next ==
    \/ \E h \in ValueGets \cup ValuePuts \cup BytesOps :
          \E a \in ArgsOf(h, scontrol[1]) : Call(1, h, a)
    \/ PutBack(1)
    \/ Step(1)
    \/ rpm_suspend

Spec == Init /\ [][Next]_vars

\* ---- two callers, each on its own control --------------------------------
\* the first caller's control: one of each kind, one channel
ConcControls ==
    {c \in Controls(1) : c.be_max <= BytesDataSize /\ (c.type = "switch" => c.comp_id <= 3)}

InitConc ==
    /\ BlockInit /\ bar = [x \in 0..(RegionLen - 1) |-> 17]
    /\ CodecQuiet
    /\ scontrol \in [Procs -> Controls(1)]
    /\ scontrol[1] \in ConcControls
    /\ scontrol[2] = Control("volume", 1, 1, 2, 0, SOF_CTRL_CMD_VOLUME, <<0, 10, 10>>)
    /\ CtlStart
    /\ \A p \in Procs : dsp[p] = [i \in 1..scontrol[p].num_channels |-> 0]

NextConc ==
    \/ \E p \in Procs : \E h \in ValueGets \cup ValuePuts \cup BytesOps :
          \E a \in SmallArgsOf(h, scontrol[p]) : Call(p, h, a)
    \/ \E p \in Procs : Step(p)
    \/ rpm_suspend

SpecConc == InitConc /\ [][NextConc]_vars

\* ---- a siggen switch that is only ever put -------------------------------
\* the steps snd_sof_switch_put goes through
SwitchPutStep(p) ==
    \/ pm_runtime_get_sync(p)
    \/ pm_runtime_put_noidle(p)
    \/ snd_sof_switch_put(p)
    \/ ipc_reply(p)
    \/ siggen_pipeline_trigger(p)
    \/ siggen_trigger_start(p)
    \/ pm_runtime_put_autosuspend(p)
    \/ Return(p)

InitSiggen ==
    /\ BlockInit /\ bar = [x \in 0..(RegionLen - 1) |-> 17]
    /\ CodecQuiet
    /\ scontrol = <<Control("switch", 2, NumChannels, 1, 0, SOF_CTRL_CMD_SWITCH, <<>>),
                    Control("enum", 3, NumChannels, 1, 0, SOF_CTRL_CMD_ENUM, <<>>)>>
    /\ CtlStart
    /\ dsp[2] = [i \in 1..NumChannels |-> 0]

NextSiggen ==
    \/ \E a \in ArgsOf("switch_put", scontrol[1]) : Call(1, "switch_put", a)
    \/ SwitchPutStep(1)
    \/ rpm_suspend

SpecSiggen == InitSiggen /\ [][NextSiggen]_vars


InitBlock == BlockInit /\ CtlQuiet /\ CodecQuiet

\* ---- the volume conversions, one call each ------------------------------
InitCodec ==
    /\ BlockInit /\ bar = [x \in 0..(RegionLen - 1) |-> 17]
    /\ CtlQuiet
    /\ CodecInit

NextCodec ==
    \/ to_ipc /\ UNCHANGED <<blockVars, ctlVars>>
    \/ to_mixer /\ UNCHANGED <<blockVars, ctlVars>>
    \/ to_mixer_back /\ UNCHANGED <<blockVars, ctlVars>>

SpecCodec == InitCodec /\ [][NextCodec]_vars

NextBlock ==
    \/ sof_block_write /\ UNCHANGED <<ctlVars, codecVars>>
    \/ sof_block_read /\ UNCHANGED <<ctlVars, codecVars>>

SpecBlock == InitBlock /\ [][NextBlock]_vars

(***************************************************************************)
(* Properties.                                                             *)
(***************************************************************************)
BlkSize == Cardinality(DOMAIN blk_src)

Done(p) == pc[p] = "done"

Ipcs(p) == IpcsOf(log[p])

WidgetOf(p) == get_widget_type(widget_list, scontrol[p])

\* the device representation of the values a caller passed to a put
DeviceVals(sc, vals) ==
    IF sc.type = "volume"
    THEN [i \in DOMAIN vals |-> sc.volume_table[Min(vals[i], sc.sm_max) + 1]]
    ELSE vals

NewVals(p) == DeviceVals(scontrol[p], arg[p].vals)

CachedVals(p) == ValuesOf(old[p].chanv)

\* positions at which a handler has resumed the device and not yet let go
Holding == {"body", "ipc", "after", "trig", "trig_start", "exit"}

\* C1: sof_block_write leaves every byte of the region outside
\* [offset, offset + size) as it was, the high-order bytes of the trailing
\* word included when size % 4 is not zero.
C1_BytesOutsideRangeUnchanged ==
    blk_pc \in {"written", "read"} =>
        \A x \in 0..(RegionLen - 1) :
            (x < blk_off \/ x >= blk_off + BlkSize) => bar[x] = bar0[x]

C1_Witness ==
    /\ blk_pc = "written"
    /\ BlkSize % 4 # 0
    /\ blk_off + BlkSize < RegionLen
    /\ \E x \in 0..(RegionLen - 1) : bar[x] # bar0[x]

\* C2: sof_block_write followed by sof_block_read of the same offset and
\* size yields exactly the source bytes, whatever size % 4 is.
C2_WriteThenReadReturnsSource ==
    blk_pc = "read" => blk_dest = blk_src

C2_Witness ==
    /\ blk_pc = "read"
    /\ BlkSize > 4
    /\ BlkSize % 4 # 0
    /\ blk_dest = blk_src

C4_AnyChangedChannelSendsOneIpc ==
    \A p \in Procs :
        (Done(p) /\ op[p] \in ValuePuts /\ pm[p].resumed
                 /\ NewVals(p) # CachedVals(p))
            => /\ Len(Ipcs(p)) = 1
               /\ ValuesOf(Ipcs(p)[1].data) = NewVals(p)

\* channels are compared one by one for volume, enum and pga switch puts,
\* channel 0 alone decides for the other switches
PerChannel(p) == op[p] \in {"volume_put", "enum_put"} \/ WidgetOf(p) = "pga"

PutDiffers(p) ==
    IF PerChannel(p) THEN NewVals(p) # CachedVals(p)
    ELSE NewVals(p)[1] # CachedVals(p)[1]

PutCarries(p) ==
    IF PerChannel(p) THEN NewVals(p)
    ELSE [i \in DOMAIN NewVals(p) |-> NewVals(p)[1]]

\* C4 amended: a put that resumed the device and differs from the cache (in
\* any channel where channels are compared one by one, in channel 0
\* otherwise) sends exactly one COMP_SET_VALUE, first, carrying the vector
\* the handler stored; only a siggen switch sends more, its trigger IPCs.
C4_ChangedPutSendsOneSetValue ==
    \A p \in Procs :
        (Done(p) /\ op[p] \in ValuePuts /\ pm[p].resumed /\ PutDiffers(p))
            => /\ Len(Ipcs(p)) >= 1
               /\ Ipcs(p)[1].cmd = "COMP_SET_VALUE"
               /\ ValuesOf(Ipcs(p)[1].data) = PutCarries(p)
               /\ ValuesOf(cdata[p].chanv) = PutCarries(p)
               /\ \A k \in 2..Len(Ipcs(p)) :
                     /\ Ipcs(p)[k].cmd \in TriggerCmds
                     /\ op[p] = "switch_put"
                     /\ WidgetOf(p) = "siggen"

C4_Witness ==
    /\ Done(1)
    /\ op[1] = "switch_put"
    /\ WidgetOf(1) = "pga"
    /\ pm[1].resumed
    /\ NewVals(1)[1] = CachedVals(1)[1]
    /\ NewVals(1)[2] # CachedVals(1)[2]
    /\ Len(Ipcs(1)) = 1

\* C5: a handler whose IPC failed returns that failure, and a get hands
\* nothing back.
C5_IpcFailureIsReturned ==
    \A p \in Procs :
        Done(p) =>
            \A k \in 1..Len(Ipcs(p)) :
                Ipcs(p)[k].res < 0 =>
                    /\ rv[p] = Ipcs(p)[k].res
                    /\ out[p] = NoOut

\* C6: when pm_runtime_get_sync fails the handler has sent no IPC, has left
\* the control's data as it found it, and returns the resume error.
C6_FailedResumeTouchesNothing ==
    \A p \in Procs :
        (Done(p) /\ pm[p].gets = 1 /\ ~pm[p].resumed)
            => /\ Ipcs(p) = <<>>
               /\ cdata[p] = old[p]
               /\ rv[p] \in ResumeErrs

\* C7: once every handler has returned the usage count is back at its
\* starting value: each pm_runtime_get_sync is matched by exactly one
\* put_noidle (failed resume) or put_autosuspend, and nothing is put that
\* was not got.
C7_UsageCountBalanced ==
    /\ (\A p \in Procs : pc[p] \in {"idle", "done"}) => usage_count = 0
    /\ \A p \in Procs :
          Done(p) =>
              /\ pm[p].gets <= 1
              /\ pm[p].gets = pm[p].noidles + pm[p].autosuspends
              /\ pm[p].noidles = 1 => ~pm[p].resumed
              /\ pm[p].autosuspends = 1 => pm[p].resumed

C7_Witness ==
    /\ Done(1)
    /\ pm[1].gets = 1
    /\ pm[1].noidles = 1
    /\ usage_count = 0

\* C8: a handler that resumed the device marks it busy and calls
\* put_autosuspend exactly once before returning, also when its body
\* failed; a handler that did not resume does neither.
C8_OneIdleRequestPerResume ==
    \A p \in Procs :
        Done(p) =>
            IF pm[p].resumed
            THEN pm[p].marks = 1 /\ pm[p].autosuspends = 1
            ELSE pm[p].marks = 0 /\ pm[p].autosuspends = 0

C8_Witness ==
    /\ Done(1)
    /\ op[1] = "switch_put"
    /\ pm[1].resumed
    /\ changed[1] < 0
    /\ pm[1].marks = 1
    /\ pm[1].autosuspends = 1

\* C9: with callers interleaved, every handler between its successful
\* resume and its exit is covered by the usage count, so an IPC is in
\* flight only with the count at 1 or more and the device active.
C9_InFlightHoldsTheDevice ==
    /\ usage_count >= Cardinality({p \in Procs : pc[p] \in Holding})
    /\ (\E p \in Procs : pc[p] \in Holding) => rpm_active

C9_Witness ==
    /\ pc[1] = "ipc"
    /\ log[1][Len(log[1])].cmd \in TriggerCmds
    /\ Done(2)
    /\ pm[2].autosuspends = 1
    /\ usage_count = 1

\* C10: a bytes put, plain or extended, that a check rejected has sent no
\* IPC and has not called pm_runtime_get_sync.
C10_RejectedPutStaysOffTheDevice ==
    \A p \in Procs :
        (op[p] \in {"bytes_put", "bytes_ext_put"} /\ rej[p] # "none")
            => /\ Done(p)
               /\ rv[p] < 0
               /\ Ipcs(p) = <<>>
               /\ pm[p] = NoPm

C10_Witness ==
    /\ Done(1)
    /\ op[1] = "bytes_ext_put"
    /\ rej[1] = "abi_size"
    /\ arg[1].blob.magic = SOF_ABI_MAGIC
    /\ pm[1].gets = 0

BytesPuts == {"bytes_put", "bytes_ext_put"}

\* C11: a bytes put, plain or extended, that a check rejected leaves the
\* control's cached blob exactly as it found it.
C11_RejectedPutLeavesCache ==
    \A p \in Procs :
        (Done(p) /\ op[p] \in BytesPuts /\ rej[p] # "none")
            => cdata[p].data = old[p].data

\* the header of a payload fails the magic or the ABI test
BadHeader(b) ==
    \/ b.magic # SOF_ABI_MAGIC
    \/ SOF_ABI_VERSION_INCOMPATIBLE(SOF_ABI_VERSION, b.abi)

\* the caller's payload, header included, is there for the handler to read
HeaderPassed(p) ==
    op[p] = "bytes_ext_put" => (arg[p].fault = "none" /\ arg[p].length >= HdrSize)

\* C12: a bytes put, plain or extended, whose payload has a wrong magic or
\* an incompatible ABI version returns an error and sends no IPC.
C12_BadHeaderIsRejected ==
    \A p \in Procs :
        (Done(p) /\ op[p] \in BytesPuts /\ HeaderPassed(p)
                 /\ BadHeader(arg[p].blob))
            => /\ rv[p] < 0
               /\ Ipcs(p) = <<>>

\* C13: after a bytes put, plain or extended, that returned success the
\* header now cached declares a size that fits the control:
\* sizeof(header) + size <= be->max.
C13_StoredSizeFitsControl ==
    \A p \in Procs :
        (Done(p) /\ op[p] \in BytesPuts /\ rv[p] >= 0)
            => ~size_t_exceeds(cdata[p].data.size, scontrol[p].be_max)

\* the envelope of an extended put was read and fails a check of its own
EnvelopeFails(p) ==
    /\ op[p] = "bytes_ext_put"
    /\ arg[p].fault # "hdr"
    /\ (arg[p].length > scontrol[p].be_max \/ arg[p].numid # scontrol[p].cmd)

\* C14: an extended bytes put whose envelope declares a length above
\* be->max, or a numid other than the control's, returns -EINVAL with not
\* one byte of the caller's blob copied in, and sends no IPC.
C14_EnvelopeCheckedBeforeCopy ==
    \A p \in Procs :
        EnvelopeFails(p)
            => /\ Done(p)
               /\ rv[p] = 0 - EINVAL
               /\ rej[p] \in {"length", "numid"}
               /\ cdata[p].data = old[p].data
               /\ Ipcs(p) = <<>>

C14_Witness ==
    /\ Done(1)
    /\ EnvelopeFails(1)
    /\ arg[1].length > scontrol[1].be_max
    /\ BlobCopy(old[1].data, arg[1].blob, arg[1].length) # old[1].data
    /\ cdata[1].data = old[1].data

\* the first size test of a bytes put fails: the envelope's length against
\* be->max (extended), be->max against the ucontrol array or the cached
\* size against be->max (plain)
CapacityFails(p) ==
    IF op[p] = "bytes_ext_put"
    THEN arg[p].fault # "hdr" /\ arg[p].length > scontrol[p].be_max
    ELSE \/ scontrol[p].be_max > BytesDataSize
         \/ size_t_exceeds(old[p].data.size, scontrol[p].be_max)

BytesGets == {"bytes_get", "bytes_ext_get"}

\* a bytes get has returned and the DSP had answered its COMP_GET_DATA
Reported(p) ==
    /\ Done(p)
    /\ op[p] \in BytesGets
    /\ Ipcs(p) # <<>>
    /\ Ipcs(p)[1].res = 0
    /\ arg[p].fault = "none"

\* the blob the DSP sent
ReportedBlob(p) == Ipcs(p)[1].data

\* sizeof(header) + declared size is more than the control can hold; a
\* declared size with bit 31 set is more than any control holds
TooBig(p) ==
    \/ ReportedBlob(p).size < 0
    \/ ReportedBlob(p).size + HdrSize > scontrol[p].be_max

\* C16: a bytes get, plain or extended, fails and hands no blob byte to
\* the caller when the size the DSP declared plus the header exceeds
\* be->max; otherwise it hands over exactly header plus declared size
\* bytes of what the DSP sent.
C16_OversizedReplyIsRefused ==
    \A p \in Procs :
        Reported(p) =>
            IF TooBig(p)
            THEN rv[p] < 0 /\ out[p].blob = NoOut.blob
            ELSE /\ rv[p] >= 0
                 /\ out[p].blob = BlobCopy(ZeroBlob, ReportedBlob(p),
                                           HdrSize + ReportedBlob(p).size)
                 /\ out[p].nbytes = HdrSize + ReportedBlob(p).size
                        + (IF op[p] = "bytes_ext_get" THEN TlvHdrSize ELSE 0)

\* the running bytes put writes back what the caller's bytes get, the call
\* before, had returned
PutsBack(p) ==
    /\ op[p] = "bytes_put"
    /\ prev[p].op = "bytes_get"
    /\ arg[p].blob = prev[p].blob

\* C17: a bytes put of the untouched result of the bytes get just before
\* it is not rejected and, once the device is resumed, succeeds with one
\* COMP_SET_DATA that carries exactly the bytes the DSP had sent, which the
\* cache holds as well.
C17_GetThenPutIsNoOp ==
    \A p \in Procs :
        (Done(p) /\ PutsBack(p))
            => /\ rej[p] = "none"
               /\ pm[p].resumed =>
                     /\ rv[p] >= 0
                     /\ Len(Ipcs(p)) = 1
                     /\ Ipcs(p)[1].cmd = "COMP_SET_DATA"
                     /\ Ipcs(p)[1].data = prev[p].dev
                     /\ cdata[p].data = prev[p].dev

C17_Witness ==
    /\ Done(1)
    /\ PutsBack(1)
    /\ pm[1].resumed
    /\ prev[1].dev.size = PayCap
    /\ Ipcs(1)[1].res = 0
    /\ Ipcs(1)[1].data = prev[1].dev

\* the start and the stop side effect of a siggen switch
Started(p) == \E k \in 1..Len(log[p]) : log[p][k].cmd = "VFE_ACTIVE"

Stopped(p) == \E k \in 1..Len(log[p]) : log[p][k].cmd = "VFE_INACTIVE"

\* the switch is on: its value (channel 0, which the handler reads) is not 0
WasOn(p) == old[p].chanv[1].value # 0

TurnsOn(p) == arg[p].vals[1] # 0

\* C18: a put on a siggen switch that resumed the device starts the
\* pipeline exactly when the switch goes from off to on and stops it
\* exactly when it goes from on to off; a put that leaves it on or leaves
\* it off does neither.
C18_TriggerOnBooleanEdgeOnly ==
    \A p \in Procs :
        (Done(p) /\ op[p] = "switch_put" /\ WidgetOf(p) = "siggen"
                 /\ pm[p].resumed)
            => /\ Started(p) <=> (~WasOn(p) /\ TurnsOn(p))
               /\ Stopped(p) <=> (WasOn(p) /\ ~TurnsOn(p))

\* C19: a control's cached data (channel values or blob) changes only in a
\* step of a handler that has resumed the device and has not yet asked for
\* it to be idled.
C19_CacheWrittenOnlyWhileHolding ==
    [][\A p \in Procs : cdata'[p] # cdata[p] => pc[p] \in Holding]_vars

\* C20: mixer_to_ipc returns volume_map[value] for a value below the
\* table's size and volume_map[size - 1] for every other unsigned value,
\* and reads the table inside its bounds.
C20_ClampedLookup ==
    vol_pc = "to_ipc" =>
        LET size == Len(vol_table)
        IN  /\ vol_index \in 0..(size - 1)
            /\ vol_result = IF vol_value \in 0..(size - 1)
                            THEN vol_table[vol_value + 1]
                            ELSE vol_table[size]

C20_Witness ==
    /\ vol_pc = "to_ipc"
    /\ Len(vol_table) = MaxTableLen
    /\ vol_value = 0 - 1
    /\ vol_table[MaxTableLen] # vol_table[1]
    /\ vol_result = vol_table[MaxTableLen]

\* the indices whose entry is at least the value
AtLeast(volume_map, value) ==
    {i \in 0..(Len(volume_map) - 1) : u32_ge(volume_map[i + 1], value)}

\* C21: ipc_to_mixer returns the smallest index whose entry is at least the
\* value, and size - 1 when no entry is.
C21_FirstEntryAtLeast ==
    vol_pc = "to_mixer" =>
        LET S == AtLeast(vol_table, vol_value)
        IN  IF S = {} THEN vol_result = Len(vol_table) - 1
            ELSE vol_result \in S /\ \A i \in S : vol_result <= i

C21_Witness ==
    /\ vol_pc = "to_mixer"
    /\ vol_table = <<0, 10, 10>>
    /\ vol_value = 10
    /\ vol_result = 1

NonDecreasing(volume_map) ==
    \A i \in 1..(Len(volume_map) - 1) : volume_map[i] <= volume_map[i + 1]

\* C22: on a non-decreasing table, for a value below the table's size,
\* ipc_to_mixer of mixer_to_ipc's result is an index that holds the same
\* entry and is not above the value.
C22_RoundTripKeepsDeviceValue ==
    (vol_pc = "back" /\ NonDecreasing(vol_table)
                     /\ vol_value \in 0..(Len(vol_table) - 1))
        => /\ vol_back \in 0..vol_value
           /\ vol_table[vol_back + 1] = vol_result

C22_Witness ==
    /\ vol_pc = "back"
    /\ vol_table = <<0, 10, 10>>
    /\ vol_value = 2
    /\ vol_result = 10
    /\ vol_back = 1

SwitchEnumPuts == {"switch_put", "enum_put"}

SwitchEnumGets == {"switch_get", "enum_get"}

\* C23 as stated: after a switch or enum put the cached value of every
\* channel i is the caller's value[i], whatever the widget; a switch or
\* enum get returns the cached value of each channel.
C23_PutStoresEachChannel ==
    \A p \in Procs :
        (Done(p) /\ pm[p].resumed)
            => /\ op[p] \in SwitchEnumPuts =>
                     ValuesOf(cdata[p].chanv) = arg[p].vals
               /\ op[p] \in SwitchEnumGets =>
                     out[p].vals = ValuesOf(cdata[p].chanv)

\* C23 amended: after an enum put or a switch put on a pga widget the
\* cached value of every channel i is the caller's value[i]; after a switch
\* put on a siggen, routing or standalone control every channel holds the
\* caller's value[0]; a switch or enum get returns the cached value of each
\* channel.
C23_PutStoresWhatTheWidgetTakes ==
    \A p \in Procs :
        (Done(p) /\ pm[p].resumed)
            => /\ op[p] \in SwitchEnumPuts =>
                     ValuesOf(cdata[p].chanv) = PutCarries(p)
               /\ op[p] \in SwitchEnumGets =>
                     out[p].vals = ValuesOf(cdata[p].chanv)

C23_Witness ==
    /\ Done(1)
    /\ pm[1].resumed
    /\ op[1] = "switch_put"
    /\ WidgetOf(1) = "siggen"
    /\ arg[1].vals[1] # arg[1].vals[2]
    /\ ValuesOf(cdata[1].chanv) = [i \in DOMAIN arg[1].vals |-> arg[1].vals[1]]

\* C24: a sof_block_write whose range lies inside the region touches, by
\* MMIO, addresses of the region only, the 32-bit read-modify-write of the
\* trailing bytes included.
C24_MmioStaysInsideRegion ==
    (blk_pc \in {"written", "read"} /\ blk_off + BlkSize <= RegionLen)
        => io_acc \subseteq 0..(RegionLen - 1)

\* C30: sof_block_write reads the source at indices below size only, also
\* for the bytes behind the last whole word.
C30_SourceReadInsideBuffer ==
    blk_pc \in {"written", "read"} => src_acc \subseteq 0..(BlkSize - 1)

\* C25: the step that asks for the device to be idled returns what the
\* handler had to return before it (ret for the bytes handlers, 0 for the
\* others) and leaves the control's data alone, whether
\* pm_runtime_put_autosuspend succeeds or fails.
C25_IdleOutcomeDoesNotShow ==
    [][\A p \in Procs :
          (pc[p] = "exit" /\ pc'[p] = "done")
              => /\ rv'[p] = ReturnValue(op[p], ret[p])
                 /\ cdata'[p] = cdata[p]]_vars

C25_Witness ==
    /\ Done(1)
    /\ op[1] = "bytes_get"
    /\ pm[1].autosuspends = 1
    /\ pm[1].idle_err < 0
    /\ rv[1] >= 0
    /\ out[1].nbytes > 0

\* C26: the extended bytes get writes at most the caller's size bytes to
\* the caller's buffer, envelope and blob bytes together, and nothing at
\* all when size is smaller than the envelope header.
C26_ExtGetStaysInsideCallerBuffer ==
    \A p \in Procs :
        (Done(p) /\ op[p] = "bytes_ext_get") =>
            /\ out[p].nbytes <= arg[p].size
            /\ arg[p].size < TlvHdrSize => out[p].nbytes = 0

\* C27: an extended bytes get whose DSP declared a size, any 32-bit value,
\* with header plus declared size above be->max fails and writes nothing
\* to the caller, also when the sum does not fit the int data_size.
C27_ExtGetRefusesEveryOversize ==
    \A p \in Procs :
        (Reported(p) /\ op[p] = "bytes_ext_get" /\ TooBig(p)) =>
            /\ rv[p] < 0
            /\ out[p].nbytes = 0

\* the caller is between two calls of the handler
Between(p) == pc[p] \in {"idle", "done"}

\* the cached state of the switch is on
CachedOn(p) == cdata[p].chanv[1].value # 0

\* C28: between any two puts of a siggen switch that started off with an
\* idle front end, cpu_dai->active of the virtual front end is 1 when the
\* cached state is on and 0 when it is off.
C28_ActiveCountFollowsSwitch ==
    Between(1) => vfe_active[1] = (IF CachedOn(1) THEN 1 ELSE 0)

\* what a handler has sent and done so far, in order
Cmds(p) == [k \in 1..Len(log[p]) |-> log[p][k].cmd]

StartSteps ==
    <<"COMP_SET_VALUE", "VFE_ACTIVE", "DPCM_UPDATE", "PCM_PARAMS", "TRIG_START">>

StopSteps == <<"COMP_SET_VALUE", "VFE_INACTIVE", "PCM_FREE">>

StartsWith(t, s) == Len(s) <= Len(t) /\ \A k \in 1..Len(s) : s[k] = t[k]

\* the put of a siggen switch that found a changed value
SiggenPut(p) ==
    /\ op[p] = "switch_put"
    /\ WidgetOf(p) = "siggen"
    /\ log[p] # <<>>

\* C29: a put that turns a siggen switch on sends the set-value IPC, marks
\* the front end active, sends PCM_PARAMS and then TRIG_START, in this
\* order, and sends TRIG_START only after PCM_PARAMS has succeeded; a put
\* that turns it off sends the set-value IPC, marks the front end inactive
\* and then sends PCM_FREE. A finished put has gone through all its steps.
C29_TriggerStepsInOrder ==
    \A p \in Procs :
        SiggenPut(p) =>
            IF TurnsOn(p)
            THEN /\ StartsWith(StartSteps, Cmds(p))
                 /\ Len(log[p]) = 5 => (log[p][4].done /\ log[p][4].res >= 0)
                 /\ Done(p) => (Len(log[p]) = 5 \/ (Len(log[p]) = 4 /\ log[p][4].res < 0))
            ELSE /\ StartsWith(StopSteps, Cmds(p))
                 /\ Done(p) => Len(log[p]) = 3

C29_Witness ==
    /\ Done(1)
    /\ SiggenPut(1)
    /\ TurnsOn(1)
    /\ ~WasOn(1)
    /\ Len(log[1]) = 4
    /\ log[1][4].cmd = "PCM_PARAMS"
    /\ log[1][4].res < 0
    /\ vfe_active[1] = 1

====
